---- MODULE Spec2Model ----
(***************************************************************************)
(* Model of backup_automatizado.py: the BackupManager orchestration        *)
(* (mount check, space check, rsync transfer, rotation), the signal        *)
(* handler, and the pure helpers they use.                                  *)
(*                                                                         *)
(* Conventions.  A file name is a sequence of one-character strings.  A    *)
(* point in time is a day ordinal (date.toordinal) and a tick within the    *)
(* day; tick 0 is midnight exactly.  A notification is "sent" when          *)
(* enviar_notificacao is called (delivery is best effort, lines 96-106).    *)
(* The mount probe (mountpoint) is assumed to be installed.                 *)
(***************************************************************************)
EXTENDS Integers, Sequences, FiniteSets, TLC

\* ------------------------------------------------------------------ bounds
MaxEntries == 2
MaxSignals == 2
MaxTicks == 1
TicksPerDay == 2
MaxFree == 4

\* ------------------------------------------------------- characters, names
\* The characters used by the model's names, in code-point order.
Alfabeto ==
  << " ", "-", "0", "1", "2", "3", "4", "5", "6", "7", "8", "9",
     "_", "a", "b", "c", "d", "k", "o", "p", "s", "u" >>

Ord(c) == CHOOSE i \in 1..Len(Alfabeto) : Alfabeto[i] = c

Digitos == << "0", "1", "2", "3", "4", "5", "6", "7", "8", "9" >>

IsDigit(c) == \E i \in 1..10 : Digitos[i] = c

DigitVal(c) == (CHOOSE i \in 1..10 : Digitos[i] = c) - 1

DigitChar(n) == Digitos[n + 1]

\* str < str, as Python compares strings (and PosixPath its parts).
RECURSIVE StrLess(_, _)
StrLess(a, b) ==
  IF b = << >> THEN FALSE
  ELSE IF a = << >> THEN TRUE
  ELSE IF Head(a) # Head(b) THEN Ord(Head(a)) < Ord(Head(b))
  ELSE StrLess(Tail(a), Tail(b))

\* str.startswith
StartsWith(s, p) == Len(s) >= Len(p) /\ SubSeq(s, 1, Len(p)) = p

\* str.replace(old, ""): every non-overlapping occurrence, left to right.
RECURSIVE ReplaceAll(_, _)
ReplaceAll(s, old) ==
  IF s = << >> THEN << >>
  ELSE IF StartsWith(s, old) THEN ReplaceAll(SubSeq(s, Len(old) + 1, Len(s)), old)
  ELSE << Head(s) >> \o ReplaceAll(Tail(s), old)

\* "backup_", the prefix of a backup directory's name.
Prefixo == << "b", "a", "c", "k", "u", "p", "_" >>

\* ------------------------------------------------------------------- dates
IsLeap(y) == y % 4 = 0 /\ (y % 100 # 0 \/ y % 400 = 0)

DaysInMonth(y, m) ==
  IF m = 2 THEN (IF IsLeap(y) THEN 29 ELSE 28)
  ELSE IF m \in {4, 6, 9, 11} THEN 30 ELSE 31

DaysBeforeYear(y) ==
  (y - 1) * 365 + ((y - 1) \div 4) - ((y - 1) \div 100) + ((y - 1) \div 400)

RECURSIVE DaysBeforeMonth(_, _)
DaysBeforeMonth(y, m) ==
  IF m = 1 THEN 0 ELSE DaysBeforeMonth(y, m - 1) + DaysInMonth(y, m - 1)

\* date(y, m, d).toordinal()
Ymd2Ord(y, m, d) == DaysBeforeYear(y) + DaysBeforeMonth(y, m) + d

\* date.fromordinal(n) as [y, m, d]
Ord2Ymd(n) ==
  LET y == CHOOSE yy \in (n \div 366)..(n \div 365 + 1) :
             DaysBeforeYear(yy) < n /\ n <= DaysBeforeYear(yy + 1)
      r == n - DaysBeforeYear(y)
      m == CHOOSE mm \in 1..12 :
             DaysBeforeMonth(y, mm) < r /\ r <= DaysBeforeMonth(y, mm) + DaysInMonth(y, mm)
  IN [y |-> y, m |-> m, d |-> r - DaysBeforeMonth(y, m)]

\* Zero-padded decimal of n in w digits.
RECURSIVE Pad(_, _)
Pad(n, w) == IF w = 0 THEN << >> ELSE Pad(n \div 10, w - 1) \o << DigitChar(n % 10) >>

\* The text YYYY-MM-DD of a date.
Chars(y, m, d) == Pad(y, 4) \o << "-" >> \o Pad(m, 2) \o << "-" >> \o Pad(d, 2)

\* datetime.strftime("%Y-%m-%d") of the day with ordinal n.
Strftime(n) == LET c == Ord2Ymd(n) IN Chars(c.y, c.m, c.d)

RECURSIVE Num(_)
Num(s) == IF s = << >> THEN 0 ELSE Num(SubSeq(s, 1, Len(s) - 1)) * 10 + DigitVal(s[Len(s)])

AllDigits(s) == \A i \in 1..Len(s) : IsDigit(s[i])

\* %m of strptime: 1[0-2] | 0[1-9] | [1-9]
MatchMonth(s) ==
  /\ Len(s) \in {1, 2}
  /\ AllDigits(s)
  /\ Num(s) \in 1..12

\* %d of strptime: 3[01] | [12]\d | 0[1-9] | [1-9] | " "[1-9]
MatchDay(s) ==
  \/ Len(s) \in {1, 2} /\ AllDigits(s) /\ Num(s) \in 1..31
  \/ Len(s) = 2 /\ s[1] = " " /\ IsDigit(s[2]) /\ DigitVal(s[2]) \in 1..9

DayNum(s) == IF s[1] = " " THEN DigitVal(s[2]) ELSE Num(s)

\* The ways to read s as <4 digits>-<month>-<day>, the whole string matched.
Splits(s) ==
  { p \in (1..2) \X (1..2) :
      /\ Len(s) = 4 + 1 + p[1] + 1 + p[2]
      /\ AllDigits(SubSeq(s, 1, 4))
      /\ s[5] = "-"
      /\ MatchMonth(SubSeq(s, 6, 5 + p[1]))
      /\ s[6 + p[1]] = "-"
      /\ MatchDay(SubSeq(s, 7 + p[1], Len(s))) }

\* datetime.strptime(s, "%Y-%m-%d"): the day's ordinal, or ValueError.
Strptime(s) ==
  IF Splits(s) = {} THEN [ok |-> FALSE, dia |-> 0]
  ELSE LET p == CHOOSE q \in Splits(s) : TRUE
           y == Num(SubSeq(s, 1, 4))
           m == Num(SubSeq(s, 6, 5 + p[1]))
           d == DayNum(SubSeq(s, 7 + p[1], Len(s)))
       IN IF y >= 1 /\ d <= DaysInMonth(y, m)
          THEN [ok |-> TRUE, dia |-> Ymd2Ord(y, m, d)]
          ELSE [ok |-> FALSE, dia |-> 0]

\* ------------------------------------------------------------ configuration
\* BackupConfig.exclusoes as used by the model (two of EXCLUSOES_PADRAO).
Exclusoes == << ".cache/*", "*.tmp" >>

\* BackupConfig.retencao_dias values tried.
Retencoes == {0, 31, 60}

\* BackupConfig.espaco_minimo_gb values tried (whole GB).
Minimos == {0, 2}

Configs ==
  { [origem |-> "/home/user/", destino |-> "/mnt/hd",
     retencao_dias |-> r, espaco_minimo_gb |-> m, exclusoes |-> Exclusoes] :
       r \in Retencoes, m \in Minimos }

\* ------------------------------------------------------------- environment
\* The day the run starts on: 2025-01-01.
Hoje == Ymd2Ord(2025, 1, 1)

NomeAntigo == Prefixo \o Chars(2024, 1, 1)
NomeLimite == Prefixo \o Chars(2024, 12, 1)
NomeHoje == Prefixo \o Chars(2025, 1, 1)
NomeDuplo == Prefixo \o Prefixo \o Chars(2024, 1, 1)
NomeCurto == Prefixo \o << "2", "0", "2", "4", "-", "1", "-", "1" >>
NomeInvalido == Prefixo \o Chars(2024, 2, 30)
NomeTexto == Prefixo \o << "o", "l", "d" >>
NomeSemPrefixo == << "d", "o", "c", "s" >>

\* The entries a destination may hold when the run starts.
Entradas ==
  { [nome |-> n, tipo |-> "dir", rev |-> 0] :
      n \in { NomeAntigo, NomeLimite, NomeHoje, NomeDuplo, NomeCurto,
              NomeInvalido, NomeTexto, NomeSemPrefixo } }
  \cup { [nome |-> n, tipo |-> "file", rev |-> 0] : n \in { NomeAntigo, NomeHoje } }

\* A directory holds at most one entry of a name.
NomesUnicos(S) == \A a \in S, b \in S : a.nome = b.nome => a = b

Sistemas == { S \in SUBSET Entradas : Cardinality(S) <= MaxEntries /\ NomesUnicos(S) }

\* What shutil.disk_usage may answer: OSError, or (total, used, free) in GB.
Usos ==
  { [erro |-> TRUE, total |-> 0, used |-> 0, free |-> 0],
    [erro |-> FALSE, total |-> 0, used |-> 0, free |-> 0] }
  \cup { [erro |-> FALSE, total |-> MaxFree, used |-> MaxFree - f, free |-> f] :
           f \in 0..MaxFree }

\* ------------------------------------------------------- configuration file
\* A key of the YAML mapping: missing, or present with one of `vals`.
Campo(vals, vazio) ==
  { [tem |-> FALSE, val |-> vazio] } \cup { [tem |-> TRUE, val |-> v] : v \in vals }

\* dados.get(chave, padrao)
Get(campo, padrao) == IF campo.tem THEN campo.val ELSE padrao

\* The file that yields configuration `cfg`: every key written out.
ArquivoDe(cfg) ==
  [estado |-> "mapa",
   dados |-> [origem |-> [tem |-> TRUE, val |-> cfg.origem],
              destino |-> [tem |-> TRUE, val |-> cfg.destino],
              retencao_dias |-> [tem |-> TRUE, val |-> cfg.retencao_dias],
              espaco_minimo_gb |-> [tem |-> TRUE, val |-> cfg.espaco_minimo_gb]]]

\* ------------------------------------------------------------------- state
VARIABLES
  dry_run,        \* BackupManager.dry_run
  config,         \* BackupManager.config
  destinoEstado,  \* what config.destino is: "ausente", "diretorio", "montado"
  fs,             \* the entries under config.destino
  fs0,            \* the entries under config.destino when the run started
  agora,          \* what datetime.now() answers
  ticks,          \* how often the clock has advanced
  pc,             \* where the main flow (main, executar and its steps) stands
  emHandler,      \* active frames of _handler_sinal
  interrompido,   \* BackupManager._interrompido
  sinais,         \* signals delivered so far
  notifs,         \* the calls of enviar_notificacao, in order
  etapas,         \* the steps of executar started, in order
  uso,            \* verificar_espaco_disco: uso, SemUso outside the function
  returncode,     \* executar_rsync: resultado.returncode, -1 when there is none
  errosRemocao,   \* rotacionar_backups: removal errors logged
  backup_dir,     \* BackupManager._backup_dir (its name under destino; << >> is None)
  cmd,            \* the rsync command line of executar_rsync
  limite,         \* rotacionar_backups: limite
  fila,           \* rotacionar_backups: the names the loop has still to visit
  removidos,      \* rotacionar_backups: removidos
  resultado,      \* what executar returned: "pendente", "True", "False"
  excecao,        \* the exception that left executar uncaught, "" when none
  exitCode,       \* the process exit status, -1 while it runs
  arquivo,        \* the configuration file args.config names
  duracao,        \* _formatar_duracao: the whole seconds of its argument
  texto           \* _formatar_duracao: what it returned, << >> before the call

vars ==
  << dry_run, config, destinoEstado, fs, fs0, agora, ticks, pc, emHandler,
     interrompido, sinais, notifs, etapas, uso, returncode, errosRemocao,
     backup_dir, cmd, limite, fila, removidos, resultado, excecao, exitCode,
     arquivo, duracao, texto >>

\* What the run never changes; the formatter has a run of its own.
Fixos == << dry_run, config, destinoEstado, fs0, arquivo, duracao, texto >>

\* The locals of the rotation.
Rotacao == << limite, fila, removidos, errosRemocao >>

\* The locals of the transfer.
Transferencia == << backup_dir, cmd, returncode >>

\* No disk usage at hand.
SemUso == [erro |-> FALSE, total |-> -1, used |-> -1, free |-> -1]

\* The signal handler's state.
Handler == << emHandler, interrompido, sinais >>

\* A datetime as a number of ticks.
Instante(t) == t.dia * TicksPerDay + t.tick

\* Mutant: the urgency is not passed on and the default, "normal", is used.
NotificaPadrao(u, de) == notifs' = Append(notifs, [urgencia |-> "normal", de |-> de])

\* enviar_notificacao(titulo, mensagem, urgencia), called by `de`.
Notifica(u, de) == notifs' = Append(notifs, [urgencia |-> u, de |-> de])

Inicia(e) == etapas' = Append(etapas, e)

\* Mutant: the handler returns to the interrupted code instead of ending it.
PrincipalSemBloqueio(p) == pc = p

\* The main flow runs only while no signal handler is on the stack: the handler
\* runs in the main thread and ends in sys.exit, so the flow never resumes.
Principal(p) == pc = p /\ emHandler = 0

\* __init__ has run: the handlers are installed, nothing has started.
Init ==
  /\ dry_run \in BOOLEAN
  /\ config \in Configs
  /\ destinoEstado \in {"ausente", "diretorio", "montado"}
  /\ fs \in (IF destinoEstado = "ausente" THEN {{}} ELSE Sistemas)
  /\ fs0 = fs
  /\ agora \in [dia : {Hoje}, tick : 0..(TicksPerDay - 1)]
  /\ ticks = 0
  /\ pc = "inicio"
  /\ emHandler = 0
  /\ interrompido = FALSE
  /\ sinais = 0
  /\ notifs = << >>
  /\ etapas = << >>
  /\ uso = SemUso
  /\ returncode = -1
  /\ errosRemocao = 0
  /\ backup_dir = << >>
  /\ cmd = << >>
  /\ limite = 0
  /\ fila = << >>
  /\ removidos = 0
  /\ resultado = "pendente"
  /\ excecao = ""
  /\ exitCode = -1
  /\ arquivo = ArquivoDe(config)
  /\ duracao = 0
  /\ texto = << >>

\* ---------------------------------------------------------- signal handler
\* Where main stands before BackupManager.__init__ has installed the handlers.
SemHandlers == {"main", "validar", "construir"}

\* sys.exit(130) of _handler_sinal.
StatusInterrompido == 130

\* A SIGINT or SIGTERM arrives: _handler_sinal logs, sets the flag and calls
\* enviar_notificacao.  It may arrive while an earlier handler is still running.
Sinal ==
  /\ pc # "saiu"
  /\ pc \notin SemHandlers
  /\ sinais < MaxSignals
  /\ sinais' = sinais + 1
  /\ emHandler' = emHandler + 1
  /\ interrompido' = TRUE
  /\ Notifica("critical", "sinal")
  /\ UNCHANGED << Fixos, fs, agora, ticks, pc, etapas, uso, Transferencia, Rotacao,
                  resultado, excecao, exitCode >>

\* The innermost handler reaches sys.exit(130): SystemExit unwinds every frame
\* (no except clause of the program catches it) and the process exits.
HandlerSai ==
  /\ emHandler > 0
  /\ emHandler' = 0
  /\ pc' = "saiu"
  /\ exitCode' = StatusInterrompido
  /\ UNCHANGED << Fixos, fs, agora, ticks, interrompido, sinais, notifs, etapas, uso,
                  Transferencia, Rotacao, resultado, excecao >>

\* ------------------------------------------------------------ main, executar
\* main calls manager.executar(): the banner is logged.
Executar ==
  /\ Principal("inicio")
  /\ pc' = "etapa1"
  /\ UNCHANGED << Fixos, fs, agora, ticks, Handler, notifs, etapas, uso,
                  Transferencia, Rotacao, resultado, excecao, exitCode >>

\* Mutant: only destino.exists() is checked, the mountpoint probe is dropped.
SoExiste(estado) == estado # "ausente"

\* verificar_hd_montado: destino.exists() and the mountpoint probe.
HdMontado(estado) == estado = "montado"

VerificarHdMontado ==
  /\ Principal("etapa1")
  /\ Inicia("mount")
  /\ IF HdMontado(destinoEstado)
     THEN pc' = "etapa2" /\ UNCHANGED notifs
     ELSE pc' = "etapa1_falha" /\ Notifica("critical", "mount")
  /\ UNCHANGED << Fixos, fs, agora, ticks, Handler, uso, Transferencia, Rotacao,
                  resultado, excecao, exitCode >>

\* livre_gb < espaco_minimo_gb
EspacoInsuficiente(livre, minimo) == livre < minimo

\* livre_gb < espaco_minimo_gb * 2
EspacoBaixo(livre, minimo) == livre < minimo * 2

\* verificar_espaco_disco up to its return, for one answer of shutil.disk_usage.
\* The percentage (used / total) divides by zero on an empty filesystem.
VerificarEspacoDisco ==
  /\ Principal("etapa2")
  /\ Inicia("space")
  /\ \E u \in Usos :
       /\ uso' = u
       /\ IF u.erro
          THEN pc' = "etapa2_falha" /\ Notifica("critical", "space") /\ UNCHANGED excecao
          ELSE IF u.total = 0
          THEN pc' = "excecao" /\ excecao' = "ZeroDivisionError" /\ UNCHANGED notifs
          ELSE IF EspacoInsuficiente(u.free, config.espaco_minimo_gb)
          THEN pc' = "etapa2_falha" /\ Notifica("critical", "space") /\ UNCHANGED excecao
          ELSE IF EspacoBaixo(u.free, config.espaco_minimo_gb)
          THEN pc' = "etapa2_ok" /\ Notifica("normal", "space") /\ UNCHANGED excecao
          ELSE pc' = "etapa2_ok" /\ UNCHANGED << notifs, excecao >>
  /\ UNCHANGED << Fixos, fs, agora, ticks, Handler, Transferencia, Rotacao,
                  resultado, exitCode >>

\* verificar_espaco_disco returned True: executar goes on to step 3.
EspacoOk ==
  /\ Principal("etapa2_ok")
  /\ pc' = "etapa3"
  /\ uso' = SemUso
  /\ UNCHANGED << Fixos, fs, agora, ticks, Handler, notifs, etapas, Transferencia,
                  Rotacao, resultado, excecao, exitCode >>

\* A step returned False: executar returns False.
RetornaFalha ==
  /\ \/ Principal("etapa1_falha")
     \/ Principal("etapa2_falha")
     \/ Principal("etapa3_falha")
  /\ resultado' = "False"
  /\ pc' = "retornou"
  /\ uso' = SemUso
  /\ UNCHANGED << Fixos, fs, agora, ticks, Handler, notifs, etapas, Transferencia,
                  Rotacao, excecao, exitCode >>

\* ------------------------------------------------------------ executar_rsync
Range(f) == { f[i] : i \in DOMAIN f }

\* Mutant: the backup directory is created in dry-run too.
CriaSempre(dry) == TRUE

\* `if not self.dry_run:` before mkdir.
CriaDiretorio(dry) == ~dry

\* Path.mkdir(parents=True, exist_ok=True) of `nome` under destino; `falha` is
\* the operating system refusing (read-only or unwritable destination).
Mkdir(sistema, nome, falha) ==
  IF \E e \in sistema : e.nome = nome /\ e.tipo = "file"
  THEN [ok |-> FALSE, erro |-> "FileExistsError", fs |-> sistema]
  ELSE IF \E e \in sistema : e.nome = nome
  THEN [ok |-> TRUE, erro |-> "", fs |-> sistema]
  ELSE IF falha
  THEN [ok |-> FALSE, erro |-> "OSError", fs |-> sistema]
  ELSE [ok |-> TRUE, erro |-> "",
        fs |-> sistema \cup { [nome |-> nome, tipo |-> "dir", rev |-> 0] }]

\* Mutant: a dry-run leaves the exclusions out.
ComandoSemExclusoes(dry, cfg, dir) ==
  << << "rsync" >>, << "-rltvh" >>, << "--progress" >>, << "--delete" >>,
     << "--no-perms" >>, << "--no-owner" >>, << "--no-group" >> >>
  \o (IF dry THEN << << "--dry-run" >> >>
      ELSE [i \in 1..Len(cfg.exclusoes) |-> << "--exclude=", cfg.exclusoes[i] >>])
  \o << << cfg.origem >>, << cfg.destino, "/" >> \o dir >>

\* The rsync command line; an argument is the sequence of its pieces.
Comando(dry, cfg, dir) ==
  << << "rsync" >>, << "-rltvh" >>, << "--progress" >>, << "--delete" >>,
     << "--no-perms" >>, << "--no-owner" >>, << "--no-group" >> >>
  \o (IF dry THEN << << "--dry-run" >> >> ELSE << >>)
  \o [i \in 1..Len(cfg.exclusoes) |-> << "--exclude=", cfg.exclusoes[i] >>]
  \o << << cfg.origem >>, << cfg.destino, "/" >> \o dir >>

\* Lines 289-320: the backup directory is derived and created, the command built.
RsyncPreparar ==
  /\ Principal("etapa3")
  /\ Inicia("transfer")
  /\ backup_dir' = Prefixo \o Strftime(agora.dia)
  /\ \E falha \in BOOLEAN :
       LET r == Mkdir(fs, backup_dir', falha) IN
       IF CriaDiretorio(dry_run) /\ ~r.ok
       THEN /\ pc' = "excecao"
            /\ excecao' = r.erro
            /\ UNCHANGED << fs, cmd >>
       ELSE /\ fs' = (IF CriaDiretorio(dry_run) THEN r.fs ELSE fs)
            /\ cmd' = Comando(dry_run, config, backup_dir')
            /\ pc' = "rsync_exec"
            /\ UNCHANGED excecao
  /\ UNCHANGED << Fixos, agora, ticks, Handler, notifs, uso, returncode, Rotacao,
                  resultado, exitCode >>

\* The clock advances while rsync runs.
Tick ==
  /\ Principal("rsync_exec")
  /\ ticks < MaxTicks
  /\ ticks' = ticks + 1
  /\ agora' = IF agora.tick + 1 < TicksPerDay
              THEN [agora EXCEPT !.tick = agora.tick + 1]
              ELSE [dia |-> agora.dia + 1, tick |-> 0]
  /\ UNCHANGED << Fixos, fs, pc, Handler, notifs, etapas, uso, Transferencia, Rotacao,
                  resultado, excecao, exitCode >>

\* How subprocess.run(cmd) may end: an exception, or rsync's exit status.
Resultados ==
  { [lancou |-> TRUE, rc |-> -1] } \cup { [lancou |-> FALSE, rc |-> c] : c \in {0, 23} }

\* Mutant: the exit status of rsync is not looked at.
RsyncSempreOk(rc) == TRUE

\* `if resultado.returncode == 0:`
RsyncOk(rc) == rc = 0

\* What rsync does to the destination: with --dry-run nothing; otherwise it may
\* write into its target, the last argument.
EfeitoRsync(c, sistema, escreveu) ==
  LET alvo == SubSeq(c[Len(c)], 3, Len(c[Len(c)])) IN
  IF << "--dry-run" >> \in Range(c) \/ ~escreveu
  THEN sistema
  ELSE { e \in sistema : e.nome # alvo }
       \cup { [nome |-> alvo, tipo |-> "dir", rev |-> 1] }

\* Lines 322-361: rsync runs and its outcome is interpreted.
RsyncExecutar ==
  /\ Principal("rsync_exec")
  /\ \E res \in Resultados, escreveu \in BOOLEAN :
       /\ returncode' = res.rc
       /\ IF res.lancou
          THEN /\ Notifica("critical", "rsync")
               /\ pc' = "etapa3_falha"
               /\ UNCHANGED fs
          ELSE /\ fs' = EfeitoRsync(cmd, fs, escreveu)
               /\ IF RsyncOk(res.rc)
                  THEN pc' = "etapa4" /\ UNCHANGED notifs
                  ELSE pc' = "etapa3_falha" /\ Notifica("critical", "rsync")
  /\ UNCHANGED << Fixos, agora, ticks, Handler, etapas, uso, backup_dir, cmd, Rotacao,
                  resultado, excecao, exitCode >>

\* -------------------------------------------------------- rotacionar_backups
\* sorted(...): the names in ascending order.
RECURSIVE Ordenados(_)
Ordenados(S) ==
  IF S = {} THEN << >>
  ELSE LET m == CHOOSE x \in S : \A y \in S \ {x} : StrLess(x, y)
       IN << m >> \o Ordenados(S \ {m})

\* Mutant: the dry-run guard of the rotation is missing.
NuncaPula(dry) == FALSE

\* `if self.dry_run: return`
PulaRotacao(dry) == dry

\* `pasta.is_dir() and pasta.name.startswith("backup_")`
Candidata(e) == e.tipo = "dir" /\ StartsWith(e.nome, Prefixo)

\* The date read from a directory name: replace, then strptime.
DataDoNome(nome) == Strptime(ReplaceAll(nome, Prefixo))

\* `data_backup < limite`, data_backup being midnight of day `dia`.
Expirado(dia, lim) == dia * TicksPerDay < lim

\* `limite = datetime.now() - timedelta(days=self.config.retencao_dias)`
Limite(t, dias) == Instante(t) - dias * TicksPerDay

\* Lines 386-401: rotacionar_backups is entered; unless dry-run, limite is
\* computed and the destination enumerated (iterdir may raise OSError).
RotacionarInicio ==
  /\ Principal("etapa4")
  /\ Inicia("rotation")
  /\ IF PulaRotacao(dry_run)
     THEN pc' = "etapa5" /\ UNCHANGED << Rotacao, excecao >>
     ELSE /\ limite' = Limite(agora, config.retencao_dias)
          /\ UNCHANGED << removidos, errosRemocao >>
          /\ \E falha \in BOOLEAN :
               IF falha
               THEN pc' = "excecao" /\ excecao' = "OSError" /\ UNCHANGED fila
               ELSE /\ pc' = "rot_loop"
                    /\ fila' = Ordenados({ e.nome : e \in fs })
                    /\ UNCHANGED excecao
  /\ UNCHANGED << Fixos, fs, agora, ticks, Handler, notifs, uso, Transferencia,
                  resultado, exitCode >>

\* The entry of the destination called `nome`.
Entrada(sistema, nome) == CHOOSE x \in sistema : x.nome = nome

\* Mutant: a failed removal ends the loop.
ParaNaFalha(f, falhou) == IF falhou THEN << >> ELSE Tail(f)

\* `except OSError` is inside the `for`: whether the removal failed or not,
\* the loop goes on with the next entry of the listing.
ProximaFila(f, falhou) == Tail(f)

\* Lines 401-418: one iteration of the loop; shutil.rmtree may raise OSError.
RotacionarPasso ==
  /\ Principal("rot_loop")
  /\ fila # << >>
  /\ LET e == Entrada(fs, Head(fila))
         d == DataDoNome(e.nome)
     IN IF Candidata(e) /\ d.ok /\ Expirado(d.dia, limite)
        THEN \E falha \in BOOLEAN :
               /\ fila' = ProximaFila(fila, falha)
               /\ IF falha
                  THEN errosRemocao' = errosRemocao + 1 /\ UNCHANGED << fs, removidos >>
                  ELSE /\ fs' = fs \ {e}
                       /\ removidos' = removidos + 1
                       /\ UNCHANGED errosRemocao
        ELSE /\ fila' = ProximaFila(fila, FALSE)
             /\ UNCHANGED << fs, removidos, errosRemocao >>
  /\ UNCHANGED << Fixos, agora, ticks, pc, Handler, notifs, etapas, uso, Transferencia,
                  limite, resultado, excecao, exitCode >>

\* Lines 420-423: the loop is over and the count is logged.
RotacionarFim ==
  /\ Principal("rot_loop")
  /\ fila = << >>
  /\ pc' = "etapa5"
  /\ UNCHANGED << Fixos, fs, agora, ticks, Handler, notifs, etapas, uso, Transferencia,
                  Rotacao, resultado, excecao, exitCode >>

\* ------------------------------------------------------ the end of executar
\* Mutant: the success notification is sent in dry-run too.
NotificaSempre(dry) == TRUE

\* `if not self.dry_run:` before the success notification.
NotificaSucesso(dry) == ~dry

\* Lines 475-481: the success notification, unless dry-run.
NotificarSucesso ==
  /\ Principal("etapa5")
  /\ IF NotificaSucesso(dry_run)
     THEN Notifica("low", "success") /\ Inicia("success")
     ELSE UNCHANGED << notifs, etapas >>
  /\ pc' = "etapa5_fim"
  /\ UNCHANGED << Fixos, fs, agora, ticks, Handler, uso, Transferencia, Rotacao,
                  resultado, excecao, exitCode >>

\* `return sucesso` with sucesso True.
RetornaSucesso ==
  /\ Principal("etapa5_fim")
  /\ resultado' = "True"
  /\ pc' = "retornou"
  /\ UNCHANGED << Fixos, fs, agora, ticks, Handler, notifs, etapas, uso, Transferencia,
                  Rotacao, excecao, exitCode >>

\* Mutant: the status does not depend on what executar returned.
StatusSempreZero(ok) == 0

\* sys.exit(0 if sucesso else 1)
StatusDeSaida(ok) == IF ok THEN 0 ELSE 1

MainSai ==
  /\ Principal("retornou")
  /\ exitCode' = StatusDeSaida(resultado = "True")
  /\ pc' = "saiu"
  /\ UNCHANGED << Fixos, fs, agora, ticks, Handler, notifs, etapas, uso, Transferencia,
                  Rotacao, resultado, excecao >>

\* An exception nothing catches leaves executar and main: traceback, status 1.
ExcecaoNaoTratada ==
  /\ Principal("excecao")
  /\ exitCode' = 1
  /\ pc' = "saiu"
  /\ uso' = SemUso
  /\ UNCHANGED << Fixos, fs, agora, ticks, Handler, notifs, etapas, Transferencia,
                  Rotacao, resultado, excecao >>

Next ==
  \/ Sinal
  \/ HandlerSai
  \/ Executar
  \/ VerificarHdMontado
  \/ VerificarEspacoDisco
  \/ EspacoOk
  \/ RetornaFalha
  \/ RsyncPreparar
  \/ Tick
  \/ RsyncExecutar
  \/ RotacionarInicio
  \/ RotacionarPasso
  \/ RotacionarFim
  \/ NotificarSucesso
  \/ RetornaSucesso
  \/ MainSai
  \/ ExcecaoNaoTratada

Spec == Init /\ [][Next]_vars

\* ------------------------------------------- runs over the exclusion lists
\* BackupConfig.exclusoes values tried: none, one, two, and two reversed.
ListasExclusao ==
  { << >>, << "*.tmp" >>, << ".cache/*", "*.tmp" >>, << "*.tmp", ".cache/*" >> }

ConfigsCmd ==
  { [origem |-> "/home/user/", destino |-> "/mnt/hd",
     retencao_dias |-> 31, espaco_minimo_gb |-> 2, exclusoes |-> x] :
       x \in ListasExclusao }

\* __init__ has run, on a mounted destination holding at most one old backup.
InitCmd ==
  /\ dry_run \in BOOLEAN
  /\ config \in ConfigsCmd
  /\ destinoEstado = "montado"
  /\ fs \in { {}, { [nome |-> NomeAntigo, tipo |-> "dir", rev |-> 0] } }
  /\ fs0 = fs
  /\ agora \in [dia : {Hoje}, tick : 0..(TicksPerDay - 1)]
  /\ ticks = 0
  /\ pc = "inicio"
  /\ emHandler = 0
  /\ interrompido = FALSE
  /\ sinais = 0
  /\ notifs = << >>
  /\ etapas = << >>
  /\ uso = SemUso
  /\ returncode = -1
  /\ errosRemocao = 0
  /\ backup_dir = << >>
  /\ cmd = << >>
  /\ limite = 0
  /\ fila = << >>
  /\ removidos = 0
  /\ resultado = "pendente"
  /\ excecao = ""
  /\ exitCode = -1
  /\ arquivo = ArquivoDe(config)
  /\ duracao = 0
  /\ texto = << >>

SpecCmd == InitCmd /\ [][Next]_vars

\* ------------------------------------------------- main, from the very start
\* The defaults of the dataclass.
ConfigPadrao ==
  [origem |-> "", destino |-> "", retencao_dias |-> 30, espaco_minimo_gb |-> 5,
   exclusoes |-> Exclusoes]

\* What the YAML file may hold under each key.
Dados ==
  [origem : Campo({"", "/home/user/"}, ""),
   destino : Campo({"", "/mnt/hd"}, ""),
   retencao_dias : Campo({-1, 0}, 0),
   espaco_minimo_gb : Campo({-1, 2}, 0)]

DadosVazios ==
  [origem |-> [tem |-> FALSE, val |-> ""], destino |-> [tem |-> FALSE, val |-> ""],
   retencao_dias |-> [tem |-> FALSE, val |-> 0],
   espaco_minimo_gb |-> [tem |-> FALSE, val |-> 0]]

\* The file is missing, is not YAML, is YAML but no mapping (a list, a scalar),
\* or is a mapping (an empty file counts as the empty mapping).
Arquivos ==
  { [estado |-> e, dados |-> DadosVazios] : e \in {"ausente", "invalido", "nao_mapa"} }
  \cup { [estado |-> "mapa", dados |-> d] : d \in Dados }

\* Lines 73-80: cls(...) from dados.get(key, default), nothing validated.
Carregar(d) ==
  [origem |-> Get(d.origem, ConfigPadrao.origem),
   destino |-> Get(d.destino, ConfigPadrao.destino),
   retencao_dias |-> Get(d.retencao_dias, ConfigPadrao.retencao_dias),
   espaco_minimo_gb |-> Get(d.espaco_minimo_gb, ConfigPadrao.espaco_minimo_gb),
   exclusoes |-> Exclusoes]

\* Mutant: only origem is required.
SoOrigem(cfg) == cfg.origem # ""

\* not (`not config.origem or not config.destino`)
CamposObrigatorios(cfg) == cfg.origem # "" /\ cfg.destino # ""

\* The process is launched: arguments parsed, nothing loaded yet.
InitMain ==
  /\ dry_run \in BOOLEAN
  /\ arquivo \in Arquivos
  /\ config = ConfigPadrao
  /\ destinoEstado \in {"ausente", "montado"}
  /\ fs \in (IF destinoEstado = "ausente" THEN {{}}
             ELSE { {}, { [nome |-> NomeAntigo, tipo |-> "dir", rev |-> 0] } })
  /\ fs0 = fs
  /\ agora = [dia |-> Hoje, tick |-> 1]
  /\ ticks = 0
  /\ pc = "main"
  /\ emHandler = 0
  /\ interrompido = FALSE
  /\ sinais = 0
  /\ notifs = << >>
  /\ etapas = << >>
  /\ uso = SemUso
  /\ returncode = -1
  /\ errosRemocao = 0
  /\ backup_dir = << >>
  /\ cmd = << >>
  /\ limite = 0
  /\ fila = << >>
  /\ removidos = 0
  /\ resultado = "pendente"
  /\ excecao = ""
  /\ exitCode = -1
  /\ duracao = 0
  /\ texto = << >>

\* Lines 528-535: BackupConfig.carregar and the two except clauses of main;
\* dados.get on something that is no mapping raises AttributeError, which
\* nothing catches: traceback and status 1.
CarregarConfig ==
  /\ Principal("main")
  /\ IF arquivo.estado \in {"ausente", "invalido"}
     THEN pc' = "saiu" /\ exitCode' = 1 /\ UNCHANGED << config, excecao >>
     ELSE IF arquivo.estado = "nao_mapa"
     THEN /\ pc' = "saiu" /\ exitCode' = 1
          /\ excecao' = "AttributeError"
          /\ UNCHANGED config
     ELSE /\ config' = Carregar(arquivo.dados)
          /\ pc' = "validar"
          /\ UNCHANGED << excecao, exitCode >>
  /\ UNCHANGED << dry_run, destinoEstado, fs, fs0, agora, ticks, Handler, notifs, etapas,
                  uso, Transferencia, Rotacao, resultado, arquivo, duracao, texto >>

\* Lines 538-540: origem and destino must be set.
ValidarConfig ==
  /\ Principal("validar")
  /\ IF CamposObrigatorios(config)
     THEN pc' = "construir" /\ UNCHANGED exitCode
     ELSE pc' = "saiu" /\ exitCode' = 1
  /\ UNCHANGED << Fixos, fs, agora, ticks, Handler, notifs, etapas, uso, Transferencia,
                  Rotacao, resultado, excecao >>

\* Lines 543-546: the logger is set up and BackupManager constructed, which
\* installs the signal handlers.
Construir ==
  /\ Principal("construir")
  /\ pc' = "inicio"
  /\ UNCHANGED << Fixos, fs, agora, ticks, Handler, notifs, etapas, uso, Transferencia,
                  Rotacao, resultado, excecao, exitCode >>

NextMain ==
  \/ CarregarConfig
  \/ ValidarConfig
  \/ Construir
  \/ Next

SpecMain == InitMain /\ [][NextMain]_vars

\* -------------------------------------------------------- _formatar_duracao
\* f"{n}" of an integer n >= 0.
RECURSIVE Dec(_)
Dec(n) == IF n < 10 THEN << DigitChar(n) >> ELSE Dec(n \div 10) \o << DigitChar(n % 10) >>

\* Mutant: the minutes are taken from the total, not from what the hours leave.
FormatarSemResto(total_seg) ==
  LET horas == total_seg \div 3600
      minutos == total_seg \div 60
      segundos == total_seg % 60
  IN IF horas > 0
     THEN Dec(horas) \o << "h", " " >> \o Dec(minutos) \o << "m", "i", "n", " " >>
          \o Dec(segundos) \o << "s" >>
     ELSE IF minutos > 0
     THEN Dec(minutos) \o << "m", "i", "n", " " >> \o Dec(segundos) \o << "s" >>
     ELSE Dec(segundos) \o << "s" >>

\* Lines 430-439, total_seg being int(duracao.total_seconds()) >= 0.
FormatarDuracao(total_seg) ==
  LET horas == total_seg \div 3600
      resto == total_seg % 3600
      minutos == resto \div 60
      segundos == resto % 60
  IN IF horas > 0
     THEN Dec(horas) \o << "h", " " >> \o Dec(minutos) \o << "m", "i", "n", " " >>
          \o Dec(segundos) \o << "s" >>
     ELSE IF minutos > 0
     THEN Dec(minutos) \o << "m", "i", "n", " " >> \o Dec(segundos) \o << "s" >>
     ELSE Dec(segundos) \o << "s" >>

\* The durations tried, in whole seconds: up to a little over two hours.
MaxSegundos == 7325

\* Nothing runs but the formatter, on a duration of 0..MaxSegundos seconds.
InitDuracao ==
  /\ dry_run = FALSE
  /\ config = [origem |-> "/home/user/", destino |-> "/mnt/hd",
               retencao_dias |-> 31, espaco_minimo_gb |-> 2, exclusoes |-> Exclusoes]
  /\ destinoEstado = "montado"
  /\ fs = {}
  /\ fs0 = fs
  /\ agora = [dia |-> Hoje, tick |-> 0]
  /\ ticks = 0
  /\ pc = "inicio"
  /\ emHandler = 0
  /\ interrompido = FALSE
  /\ sinais = 0
  /\ notifs = << >>
  /\ etapas = << >>
  /\ uso = SemUso
  /\ returncode = -1
  /\ errosRemocao = 0
  /\ backup_dir = << >>
  /\ cmd = << >>
  /\ limite = 0
  /\ fila = << >>
  /\ removidos = 0
  /\ resultado = "pendente"
  /\ excecao = ""
  /\ exitCode = -1
  /\ arquivo = ArquivoDe(config)
  /\ duracao \in 0..MaxSegundos
  /\ texto = << >>

\* _formatar_duracao is called and returns.
ChamaFormatarDuracao ==
  /\ texto = << >>
  /\ texto' = FormatarDuracao(duracao)
  /\ UNCHANGED << dry_run, config, destinoEstado, fs, fs0, agora, ticks, pc, Handler,
                  notifs, etapas, uso, Transferencia, Rotacao, resultado, excecao,
                  exitCode, arquivo, duracao >>

NextDuracao == ChamaFormatarDuracao

SpecDuracao == InitDuracao /\ [][NextDuracao]_vars

\* ================================================================== claims
Conta(u) == Cardinality({ i \in DOMAIN notifs : notifs[i].urgencia = u })

ContaDe(u, de) ==
  Cardinality({ i \in DOMAIN notifs : notifs[i].urgencia = u /\ notifs[i].de = de })

Ultima == IF etapas = << >> THEN "" ELSE etapas[Len(etapas)]

\* The limit rotacionar_backups would compute now.
LimiteAgora == Limite(agora, config.retencao_dias)

C2_DryRunNaoAltera == dry_run => fs = fs0

\* A dry run that succeeded although an expired backup directory is there.
C2_Witness ==
  /\ dry_run
  /\ pc = "saiu"
  /\ resultado = "True"
  /\ \E e \in fs :
       Candidata(e) /\ DataDoNome(e.nome).ok /\ Expirado(DataDoNome(e.nome).dia, LimiteAgora)

\* C3, as stated: in dry-run mode rotacionar_backups is never invoked.
C3_Original == dry_run => "rotation" \notin Range(etapas)

\* C3, as amended: in dry-run mode rotacionar_backups, invoked after a
\* successful transfer, returns at once: it computes no limit, enumerates
\* nothing and removes nothing.
C3_DryRunRotacaoInerte ==
  dry_run =>
    /\ pc # "rot_loop"
    /\ fila = << >>
    /\ limite = 0
    /\ removidos = 0
    /\ errosRemocao = 0
    /\ fs0 \subseteq fs

\* A dry run whose rotation was invoked and has returned.
C3_Witness == dry_run /\ Ultima = "rotation" /\ pc = "etapa5"

\* A name of the form backup_<YYYY-MM-DD> with a date of the calendar.
FormaEstrita(nome) ==
  /\ Len(nome) = Len(Prefixo) + 10
  /\ StartsWith(nome, Prefixo)
  /\ LET d == SubSeq(nome, Len(Prefixo) + 1, Len(nome)) IN
       /\ AllDigits(SubSeq(d, 1, 4)) /\ d[5] = "-"
       /\ AllDigits(SubSeq(d, 6, 7)) /\ d[8] = "-"
       /\ AllDigits(SubSeq(d, 9, 10))
       /\ Num(SubSeq(d, 1, 4)) >= 1
       /\ Num(SubSeq(d, 6, 7)) \in 1..12
       /\ Num(SubSeq(d, 9, 10)) \in 1..DaysInMonth(Num(SubSeq(d, 1, 4)), Num(SubSeq(d, 6, 7)))

DataEstrita(nome) ==
  LET d == SubSeq(nome, Len(Prefixo) + 1, Len(nome))
  IN Ymd2Ord(Num(SubSeq(d, 1, 4)), Num(SubSeq(d, 6, 7)), Num(SubSeq(d, 9, 10)))

DeveRemover(e, lim) ==
  e.tipo = "dir" /\ FormaEstrita(e.nome) /\ DataEstrita(e.nome) * TicksPerDay < lim

\* C4: every iteration of the rotation that logs no removal error removes the
\* entry it visits exactly when that entry is a directory named
\* backup_<YYYY-MM-DD> whose date is before now minus retencao_dias, and
\* leaves every other entry as it is.
C4_Original ==
  [][ (pc = "rot_loop" /\ fila # << >> /\ fila' = Tail(fila)
         /\ errosRemocao' = errosRemocao)
      => fs' = (IF DeveRemover(Entrada(fs, Head(fila)), limite)
                THEN fs \ { Entrada(fs, Head(fila)) }
                ELSE fs) ]_vars

C6_Original ==
  (uso # SemUso /\ pc # "saiu") =>
    IF uso.erro \/ uso.free < config.espaco_minimo_gb
    THEN /\ pc = "etapa2_falha"
         /\ ContaDe("critical", "space") = 1
         /\ "transfer" \notin Range(etapas)
    ELSE pc = "etapa2_ok"

\* C7: for every free space and minimum the disk reports: between minimum and
\* twice the minimum the check passes with exactly one normal notification;
\* from twice the minimum on it passes with none; below the minimum it does
\* not pass, sends no normal notification and the transfer is not started.
C7_Original ==
  (uso # SemUso /\ ~uso.erro /\ pc # "saiu") =>
    LET f == uso.free
        m == config.espaco_minimo_gb
    IN /\ (m <= f /\ f < 2 * m) => (pc = "etapa2_ok" /\ Conta("normal") = 1)
       /\ (f >= 2 * m) => (pc = "etapa2_ok" /\ Conta("normal") = 0)
       /\ (f < m) => /\ pc # "etapa2_ok"
                     /\ Conta("normal") = 0
                     /\ "transfer" \notin Range(etapas)

\* C8: a run that rsync ended in and no signal interrupted has, when it is
\* over: with exit status 0 the outcome success and (not dry-run) exactly one
\* success notification; with any other status the outcome failure, exactly
\* one critical notification and no rotation.
C8_Original ==
  (pc = "saiu" /\ ~interrompido /\ returncode # -1) =>
    IF returncode = 0
    THEN resultado = "True" /\ (~dry_run => ContaDe("low", "success") = 1)
    ELSE /\ resultado = "False"
         /\ Conta("critical") = 1
         /\ "rotation" \notin Range(etapas)

\* C9: however the transfer step fails, no exception leaves it: it returns
\* False after one critical notification and the rotation is not started.
C9_Original ==
  (Ultima = "transfer" /\ pc \in {"excecao", "etapa3_falha", "retornou"}) =>
    /\ excecao = ""
    /\ ContaDe("critical", "rsync") = 1
    /\ (pc = "retornou" => resultado = "False")

\* C10: a run that is not a dry run, whose transfer succeeded and that no
\* signal interrupted ends in success whatever happens in the rotation:
\* executar returns True, the success notification is sent, the status is 0.
C10_Original ==
  ("rotation" \in Range(etapas) /\ ~dry_run /\ pc = "saiu" /\ ~interrompido) =>
    /\ resultado = "True"
    /\ ContaDe("low", "success") = 1
    /\ exitCode = 0

\* The steps of executar in the order of the code.
Ordem == << "mount", "space", "transfer", "rotation", "success" >>

\* C14: the steps started are always an initial part of mount, space,
\* transfer, rotation (and the success notification), each at most once; a
\* step that has reported a failure is the last one started; the rotation is
\* started only after rsync ended with status 0.
C14_OrdemDasEtapas ==
  /\ Len(etapas) <= Len(Ordem)
  /\ \A i \in 1..Len(etapas) : etapas[i] = Ordem[i]
  /\ (ContaDe("critical", "mount") >= 1 => Ultima = "mount")
  /\ (ContaDe("critical", "space") >= 1 => Ultima = "space")
  /\ (ContaDe("critical", "rsync") >= 1 => Ultima = "transfer")
  /\ (resultado = "False" => Ultima \in {"mount", "space", "transfer"})
  /\ ("rotation" \in Range(etapas) => returncode = 0)

\* A complete run: all steps started, in order, and a backup removed.
C14_Witness == etapas = Ordem /\ removidos >= 1 /\ pc = "retornou"

\* C16: in a run no signal interrupted, executar returning False has sent
\* exactly one critical notification, and returning True has sent none.
C16_UmaNotificacaoCritica ==
  ~interrompido =>
    /\ (resultado = "False" => Conta("critical") = 1)
    /\ (resultado = "True" => Conta("critical") = 0)

\* A failed transfer: executar returned False after one critical notification.
C16_Witness ==
  /\ ~interrompido
  /\ resultado = "False"
  /\ Ultima = "transfer"
  /\ returncode = 23
  /\ Conta("critical") = 1

\* C17: at most one low-urgency notification is sent, the success one; it is
\* sent only in a run that is not a dry run, after rsync ended with status 0
\* and after the rotation has finished; a dry run that returns True has sent
\* none.
C17_NotificacaoDeSucesso ==
  /\ Conta("low") <= 1
  /\ Conta("low") = ContaDe("low", "success")
  /\ (Conta("low") = 1 =>
        /\ ~dry_run
        /\ returncode = 0
        /\ "rotation" \in Range(etapas)
        /\ pc \in {"etapa5_fim", "retornou", "saiu"}
        /\ fila = << >>)
  /\ (dry_run /\ resultado = "True" => Conta("low") = 0)
  /\ (~dry_run /\ resultado = "True" => Conta("low") = 1)

\* A run that removed a backup and then sent its success notification.
C17_Witness ==
  /\ ~dry_run
  /\ Conta("low") = 1
  /\ removidos = 1
  /\ pc = "retornou"

\* C20: in a run that is not a dry run and whose transfer succeeded, once the
\* rotation has finished the directory backup_<today> the run wrote into is
\* still under the destination.
C20_Original ==
  (~dry_run /\ returncode = 0 /\ pc \in {"etapa5", "etapa5_fim", "retornou"}) =>
    \E e \in fs : e.nome = backup_dir /\ e.tipo = "dir"


\* The names under the destination in file system `sistema`.
Nomes(sistema) == { e.nome : e \in sistema }

\* The entries the rotation takes for expired backups: lines 402-410.
Expirados(sistema, lim) ==
  { e \in sistema : /\ Candidata(e)
                    /\ DataDoNome(e.nome).ok
                    /\ Expirado(DataDoNome(e.nome).dia, lim) }

\* C15: when a rotation has run to its end, the expired backup directories
\* still present are exactly those whose removal failed, one logged error
\* each (none retried, none skipped because an earlier removal failed), and
\* the count the rotation reports is the number of directories removed.
C15_FalhaNaoInterrompe ==
  (~dry_run /\ pc = "etapa5") =>
    /\ Cardinality(Expirados(fs, limite)) = errosRemocao
    /\ removidos = Cardinality((Nomes(fs0) \cup {backup_dir}) \ Nomes(fs))

\* A rotation whose first removal failed and whose second succeeded.
C15_Witness ==
  /\ ~dry_run /\ pc = "etapa5"
  /\ errosRemocao = 1 /\ removidos = 1
  /\ \E e \in Expirados(fs, limite) :
       \E n \in Nomes(fs0) \ Nomes(fs) : StrLess(e.nome, n)


\* The positions of argument `a` in command line `c`.
Posicoes(c, a) == { i \in DOMAIN c : c[i] = a }

\* The exclude arguments of command line `c`, in order.
Exclusas(c) == SelectSeq(c, LAMBDA a : Len(a) = 2 /\ a[1] = "--exclude=")

\* C19: whatever the exclusion list and the mode, the command line
\* executar_rsync builds holds --delete, --no-perms, --no-owner and
\* --no-group, one --exclude= argument per pattern of exclusoes in list
\* order, --dry-run exactly in dry-run, and ends with the source followed by
\* destino/backup_<YYYY-MM-DD> of the day it was built; and the step is a
\* success exactly when rsync exited with 0, in both modes.
C19_ComandoRsync ==
  /\ cmd # << >> =>
       /\ \A a \in { << "--delete" >>, << "--no-perms" >>, << "--no-owner" >>,
                      << "--no-group" >> } : Posicoes(cmd, a) # {}
       /\ Exclusas(cmd) = [i \in 1..Len(config.exclusoes) |->
                             << "--exclude=", config.exclusoes[i] >>]
       /\ (Posicoes(cmd, << "--dry-run" >>) # {}) <=> dry_run
       /\ cmd[Len(cmd) - 1] = << config.origem >>
       /\ cmd[Len(cmd)] = << config.destino, "/" >> \o backup_dir
       /\ FormaEstrita(backup_dir)
       /\ DataEstrita(backup_dir) \in Hoje..agora.dia
  /\ pc \in {"etapa4", "rot_loop", "etapa5", "etapa5_fim"} => returncode = 0
  /\ pc = "etapa3_falha" => returncode # 0

\* A dry-run with two exclusions whose rsync exited with 0.
C19_Witness ==
  /\ dry_run /\ Len(config.exclusoes) = 2 /\ config.exclusoes[1] = "*.tmp"
  /\ pc = "etapa4" /\ cmd # << >>


\* `s` is the decimal numeral of n, without sign or leading zeros.
Numeral(s, n) ==
  /\ s # << >>
  /\ AllDigits(s)
  /\ Len(s) > 1 => s[1] # "0"
  /\ Num(s) = n

\* `s` reads "<n>s".
LeS(s, n) ==
  /\ Len(s) >= 2
  /\ s[Len(s)] = "s"
  /\ Numeral(SubSeq(s, 1, Len(s) - 1), n)

\* `s` reads "<m>min <n>s".
LeMinS(s, m, n) ==
  \E a \in 1..Len(s) :
    /\ a + 4 < Len(s)
    /\ Numeral(SubSeq(s, 1, a), m)
    /\ SubSeq(s, a + 1, a + 4) = << "m", "i", "n", " " >>
    /\ LeS(SubSeq(s, a + 5, Len(s)), n)

\* `s` reads "<h>h <m>min <n>s".
LeHMinS(s, h, m, n) ==
  \E a \in 1..Len(s) :
    /\ a + 2 < Len(s)
    /\ Numeral(SubSeq(s, 1, a), h)
    /\ SubSeq(s, a + 1, a + 2) = << "h", " " >>
    /\ LeMinS(SubSeq(s, a + 3, Len(s)), m, n)

\* C13: for t whole seconds, _formatar_duracao returns "<t>s" when t <= 59,
\* "<t div 60>min <t mod 60>s" when 60 <= t <= 3599, and
\* "<t div 3600>h <(t mod 3600) div 60>min <t mod 60>s" when t >= 3600.
C13_FormatoDaDuracao ==
  texto # << >> =>
    IF duracao <= 59 THEN LeS(texto, duracao)
    ELSE IF duracao <= 3599 THEN LeMinS(texto, duracao \div 60, duracao % 60)
    ELSE LeHMinS(texto, duracao \div 3600, (duracao % 3600) \div 60, duracao % 60)

\* 7325 seconds have been formatted as "2h 2min 5s".
C13_Witness ==
  /\ duracao = 7325
  /\ texto = << "2", "h", " ", "2", "m", "i", "n", " ", "5", "s" >>


\* The configuration file gives main nothing to run with.
ConfigFalha ==
  \/ arquivo.estado # "mapa"
  \/ Get(arquivo.dados.origem, "") = ""
  \/ Get(arquivo.dados.destino, "") = ""

\* C11: the process exits with 130 when a signal interrupted it and with 0 or
\* 1 otherwise: 0 exactly when executar returned True, 1 when the
\* configuration could not be loaded or lacks origem or destino and when
\* executar returned False.
C11_StatusDeSaida ==
  pc = "saiu" =>
    /\ exitCode \in {0, 1, 130}
    /\ exitCode = 130 <=> interrompido
    /\ ~interrompido => (exitCode = 0 <=> resultado = "True")
    /\ (~interrompido /\ (ConfigFalha \/ resultado = "False")) => exitCode = 1

\* A run on a file that leaves retencao_dias to its default has gone through
\* all the steps and exited with 0.
C11_Witness ==
  /\ pc = "saiu" /\ exitCode = 0 /\ resultado = "True"
  /\ ~arquivo.dados.retencao_dias.tem
  /\ notifs # << >>

\* C12: with a configuration file that is missing, unreadable as a mapping,
\* or without a non-empty origem and destino, no step starts, no notification
\* is sent, and the process can only exit with status 1.
C12_ConfigInvalida ==
  ConfigFalha =>
    /\ pc \in {"main", "validar", "saiu"}
    /\ etapas = << >>
    /\ notifs = << >>
    /\ resultado = "pendente"
    /\ cmd = << >> /\ fs = fs0
    /\ pc = "saiu" => exitCode = 1

\* A file that sets origem but an empty destino has ended the process.
C12_Witness ==
  /\ pc = "saiu" /\ exitCode = 1
  /\ arquivo.estado = "mapa"
  /\ arquivo.dados.origem.tem /\ arquivo.dados.origem.val # ""
  /\ arquivo.dados.destino.tem /\ arquivo.dados.destino.val = ""

\* C18, as stated: a configuration executar is started with has a non-empty
\* origem and destino, retencao_dias >= 0 and espaco_minimo_gb >= 0.
C18_Original ==
  pc = "etapa1" =>
    /\ config.origem # "" /\ config.destino # ""
    /\ config.retencao_dias >= 0
    /\ config.espaco_minimo_gb >= 0

====
